---- MODULE Spec2Model ----
(***************************************************************************)
(* Finite automata of automata.py: the DFA and NFA classes, their run      *)
(* methods, DFA.toNFA and NFA.ε_closure.                                   *)
(*                                                                         *)
(* Python values.  A state is an int or a str; both are written here as a  *)
(* sequence of strings whose head is the type tag, so that values of the   *)
(* two types can sit in one set:  0 is <<"int","0">>, "pq" is              *)
(* <<"str","p","q">>.  An input string w is the sequence of its            *)
(* one-character symbols, a symbol is a string, and ε is the empty string  *)
(* "" (automata.py:172).  A dict is a function on the set of its keys.     *)
(* Identifiers: delta is δ, Sigma is Σ, eps_closure is ε_closure.          *)
(***************************************************************************)
EXTENDS Integers, Sequences, FiniteSets, Bags, TLC

VARIABLES dfa, nfa, calls

vars == <<dfa, nfa, calls>>

\* Longest input string handed to run.
MaxLen == 3

None == "None"
NoObject == [kind |-> None]

\* The Python value None, as a value of the shape states have.
PyNone == <<"NoneType">>

PyInt(n) == <<"int", n>>
PyStr(cs) == <<"str">> \o cs

I0 == PyInt("0")
I1 == PyInt("1")
I2 == PyInt("2")
I3 == PyInt("3")
I4 == PyInt("4")
I9 == PyInt("9")
Sp == PyStr(<<"p">>)
Sq == PyStr(<<"q">>)
Spq == PyStr(<<"p", "q">>)

Range(f) == {f[k] : k \in DOMAIN f}

\* A dict display {k1: v1, k2: v2, ...}: of two items with one key the later
\* one stays.
PyDict(items) ==
  [k \in {items[i][1] : i \in DOMAIN items} |->
     items[CHOOSE i \in DOMAIN items :
             /\ items[i][1] = k
             /\ \A j \in DOMAIN items : items[j][1] = k => j <= i][2]]

\* All strings over the symbols A of length at most n.
Words(A, n) == UNION {[1..k -> A] : k \in 0..n}

\* The result of a call: a returned value, or the exception it raised.
Return(v) == [exc |-> None, val |-> v]
Raise(e) == [exc |-> e, val |-> None]

\* set(t) for a state t: the characters of a str; an int is not iterable.
PySet(t) ==
  IF t[1] = "str"
    THEN Return({PyStr(<<t[i]>>) : i \in 2..Len(t)})
    ELSE Raise("TypeError")

\* d.get(k, default)
dict_get(d, k, default) == IF k \in DOMAIN d THEN d[k] ELSE default

\* d[k]
dict_lookup(d, k) == IF k \in DOMAIN d THEN Return(d[k]) ELSE Raise("KeyError")

(***************************************************************************)
(* class DFA                                                               *)
(***************************************************************************)
DFA(Q, Sigma, delta, q0, F) ==
  [kind |-> "DFA", Q |-> Q, Sigma |-> Sigma, delta |-> delta, q0 |-> q0, F |-> F]

\* DFA_step with self.δ.get((q,x)) for self.δ[(q,x)]: a missing pair gives None.
DFA_step_get(self, q, x) == Return(dict_get(self.delta, <<q, x>>, PyNone))

\* One iteration of the loop of DFA.run: the state after reading symbol x in q.
DFA_step(self, q, x) == dict_lookup(self.delta, <<q, x>>)

RECURSIVE DFA_loop(_, _, _)
DFA_loop(self, q, w) ==
  IF w = <<>>
    THEN Return(q \in self.F)
    ELSE LET r == DFA_step(self, q, Head(w))
         IN IF r.exc # None THEN Raise(r.exc) ELSE DFA_loop(self, r.val, Tail(w))

\* DFA.run(w), start to finish.
DFA_run(self, w) == DFA_loop(self, self.q0, w)

(***************************************************************************)
(* class NFA                                                               *)
(***************************************************************************)
NFA(Q, Sigma, delta, S, F) ==
  [kind |-> "NFA", Q |-> Q, Sigma |-> Sigma, delta |-> delta, S |-> S, F |-> F]

\* The comprehension of DFA.toNFA: set(t) of every value of δ.
toNFA_delta(delta) ==
  IF \E k \in DOMAIN delta : PySet(delta[k]).exc # None
    THEN Raise("TypeError")
    ELSE Return([k \in DOMAIN delta |-> PySet(delta[k]).val])

toNFA(self) ==
  LET d == toNFA_delta(self.delta)
  IN IF d.exc # None
       THEN Raise(d.exc)
       ELSE Return(NFA(self.Q, self.Sigma, d.val, {self.q0}, self.F))

\* Iteration over a set visits its members in an order the program does not
\* choose: ord is a sequence listing every state once, and a set is visited
\* in the order its members have in ord.
InOrder(S, ord) == SelectSeq(ord, LAMBDA x : x \in S)

SeqRange(s) == {s[i] : i \in 1..Len(s)}

\* The while loop of ε_closure on closure C and worklist stack.
RECURSIVE eps_loop(_, _, _, _)
eps_loop(self, C, stack, ord) ==
  IF stack = <<>>
    THEN C
    ELSE LET q == stack[Len(stack)]
             rest == SubSeq(stack, 1, Len(stack) - 1)
             fresh == InOrder(dict_get(self.delta, <<q, "">>, {}) \ C, ord)
         IN eps_loop(self, C \cup SeqRange(fresh), rest \o fresh, ord)

\* ε_closure without stack.append(new_q): the states added are not explored.
eps_closure_one_level(self, S, ord) ==
  S \cup UNION {dict_get(self.delta, <<q, "">>, {}) : q \in S}

\* ε_closure with C = set() for C = set(S).
eps_closure_reached_only(self, S, ord) == eps_loop(self, {}, InOrder(S, ord), ord)

eps_closure(self, S, ord) == eps_loop(self, S, InOrder(S, ord), ord)

\* eps_closure_arg with C = S for C = set(S): C and S are one set, and the
\* additions to C are additions to S.
eps_closure_arg_alias(self, S, ord) == eps_closure(self, S, ord)

\* The set passed to ε_closure, after the call: C = set(S) is a copy, so the
\* additions to C leave S as it was.
eps_closure_arg(self, S, ord) == S

\* transition with a missing pair read as "stay in q".
transition_stay(self, q, x) == dict_get(self.delta, <<q, x>>, {q})

transition(self, q, x) == dict_get(self.delta, <<q, x>>, {})

\* NFA_first as the line "# P = self.S" has it: no ε-closure of the starts.
NFA_first_plain(self, ord) == self.S

\* The frontier before the first symbol.
NFA_first(self, ord) == eps_closure(self, self.S, ord)

\* NFA_step with "for q in self.Q" for "for q in P".
NFA_step_all_states(self, P, x, ord) ==
  LET new_P == UNION {transition(self, q, x) : q \in self.Q}
  IN eps_closure(self, new_P, ord)

\* for q in P: new_P = new_P.union(self.transition(q,w[0])), P visited in
\* the order qs.
RECURSIVE new_P_loop(_, _, _, _)
new_P_loop(self, qs, x, new_P) ==
  IF qs = <<>>
    THEN new_P
    ELSE new_P_loop(self, Tail(qs), x, new_P \cup transition(self, Head(qs), x))

\* NFA_step with "new_P = self.transition(q,w[0])" in the for loop: the moves
\* of the state visited last.
NFA_step_assign(self, P, x, ord) ==
  LET qs == InOrder(P, ord)
      new_P == IF qs = <<>> THEN {} ELSE transition(self, qs[Len(qs)], x)
  IN eps_closure(self, new_P, ord)

\* NFA_step as the line "# P = new_P" has it: no ε-closure after the symbol.
NFA_step_unclosed(self, P, x, ord) == new_P_loop(self, InOrder(P, ord), x, {})

\* One iteration of the loop of NFA.run: the frontier after reading x from P.
NFA_step(self, P, x, ord) ==
  eps_closure(self, new_P_loop(self, InOrder(P, ord), x, {}), ord)

\* NFA_result with P.issubset(self.F) for not P.isdisjoint(self.F).
NFA_result_subset(self, P) == P \subseteq self.F

NFA_result(self, P) == P \cap self.F # {}

RECURSIVE NFA_loop(_, _, _, _)
NFA_loop(self, P, w, ord) ==
  IF w = <<>>
    THEN NFA_result(self, P)
    ELSE NFA_loop(self, NFA_step(self, P, Head(w), ord), Tail(w), ord)

\* NFA.run(w), start to finish.
NFA_run(self, w, ord) == NFA_loop(self, NFA_first(self, ord), w, ord)

(***************************************************************************)
(* The automata the module builds, and the families the runs are checked   *)
(* on.                                                                     *)
(***************************************************************************)
\* D0 with (1,"a"):1 for (1,"a"):2.
D0_a_after_b ==
  DFA({I0, I1, I2}, {PyStr(<<"a">>), PyStr(<<"b">>)},
      PyDict(<< <<(<<I0, "a">>), I0>>, <<(<<I0, "b">>), I1>>,
                <<(<<I1, "a">>), I1>>, <<(<<I1, "b">>), I1>>,
                <<(<<I2, "a">>), I2>>, <<(<<I2, "b">>), I2>> >>),
      I0, {I0, I1})

\* D1 without the entry (2,"0"):0.
D1_partial ==
  DFA({I0, I1, I2}, {I0, I1},
      PyDict(<< <<(<<I0, "0">>), I0>>, <<(<<I0, "1">>), I1>>,
                <<(<<I1, "0">>), I0>>, <<(<<I1, "1">>), I2>>,
                <<(<<I2, "1">>), I2>> >>),
      I0, {I2})

\* N0 with (1,"0"):{0} for (1,"0"):{2}.
N0_one_zero_back ==
  NFA({I0, I1, I2}, {I0, I1},
      PyDict(<< <<(<<I0, "0">>), {I0}>>,
                <<(<<I0, "1">>), {I0, I1}>>,
                <<(<<I1, "0">>), {I0}>>,
                <<(<<I1, "1">>), {I2}>> >>),
      {I0}, {I2})

D0 ==
  DFA({I0, I1, I2}, {PyStr(<<"a">>), PyStr(<<"b">>)},
      PyDict(<< <<(<<I0, "a">>), I0>>, <<(<<I0, "b">>), I1>>,
                <<(<<I1, "a">>), I2>>, <<(<<I1, "b">>), I1>>,
                <<(<<I2, "a">>), I2>>, <<(<<I2, "b">>), I2>> >>),
      I0, {I0, I1})

D1 ==
  DFA({I0, I1, I2}, {I0, I1},
      PyDict(<< <<(<<I0, "0">>), I0>>, <<(<<I0, "1">>), I1>>,
                <<(<<I1, "0">>), I0>>, <<(<<I1, "1">>), I2>>,
                <<(<<I2, "1">>), I2>>, <<(<<I2, "0">>), I0>> >>),
      I0, {I2})

N0 ==
  NFA({I0, I1, I2}, {I0, I1},
      PyDict(<< <<(<<I0, "0">>), {I0}>>,
                <<(<<I0, "1">>), {I0, I1}>>,
                <<(<<I1, "0">>), {I2}>>,
                <<(<<I1, "1">>), {I2}>> >>),
      {I0}, {I2})

N1_items ==
  << <<(<<I0, "0">>), {I0}>>, <<(<<I0, "">>), {I1}>>,
     <<(<<I1, "1">>), {I1}>>, <<(<<I1, "">>), {I2}>>,
     <<(<<I2, "0">>), {I0}>>, <<(<<I2, "">>), {I3}>>, <<(<<I2, "0">>), {I4}>> >>

N1 == NFA({I0, I1, I2, I3, I4}, {I0, I1}, PyDict(N1_items), {I0}, {I3, I4})

\* N1 without the ε-move of state q.
N1_without(q) ==
  NFA(N1.Q, N1.Sigma,
      [k \in DOMAIN N1.delta \ {<<q, "">>} |-> N1.delta[k]], N1.S, N1.F)

\* The test cases of the fixtures: (string, expected).
D0_tests ==
  << <<(<<"a", "a", "b", "b">>), TRUE>>,
     <<(<<"b", "b", "a">>), FALSE>>,
     <<(<<"a", "b", "a">>), FALSE>> >>

D1_tests ==
  << <<(<<"0", "0", "1", "1">>), TRUE>>,
     <<(<<"1", "1">>), TRUE>>,
     <<(<<"0", "1", "0", "1", "1", "1">>), TRUE>>,
     <<(<<"1", "1", "1", "1">>), TRUE>>,
     <<(<<"0", "0">>), FALSE>>,
     <<(<<"1", "1", "0">>), FALSE>> >>

N0_tests ==
  << <<(<<"1", "0">>), TRUE>>,
     <<(<<"1", "1">>), TRUE>>,
     <<(<<"1", "0", "0">>), FALSE>>,
     <<(<<"1", "1", "1">>), TRUE>> >>

N1_tests ==
  << <<(<<>>), TRUE>>,
     <<(<<"0">>), TRUE>>,
     <<(<<"1">>), TRUE>>,
     <<(<<"0", "1", "0">>), TRUE>> >>

\* The strings of a list of test cases.
TestStrings(test_cases) == {test_cases[i][1] : i \in DOMAIN test_cases}

AB == {PyStr(<<"a">>), PyStr(<<"b">>)}

\* Every DFA over the states U and the symbols a, b whose δ is defined on
\* the keys Ks, started in a state of U or in the state out, which is not
\* in U.
DFAsOver(U, Ks, out) ==
  {DFA(U, AB, d, q0, F) :
     d \in UNION {[K -> U] : K \in Ks}, q0 \in U \cup {out}, F \in SUBSET U}

DFAFamily ==
  {D0, D1}
    \cup DFAsOver({I0, I1}, SUBSET ({I0, I1} \X {"a", "b"}), I9)
    \cup DFAsOver({Sp, Sq}, {{Sp, Sq} \X {"a", "b"}}, Spq)
    \cup DFAsOver({Sp, Spq}, {{Sp, Spq} \X {"a", "b"}}, Sq)

U3 == {I0, I1, I2}

\* The moves the NFAs of the family are made of: (state, symbol, state).
EdgePool ==
  {<<I0, "", I1>>, <<I1, "", I2>>,
   <<I0, "a", I0>>, <<I0, "a", I1>>, <<I1, "a", I2>>,
   <<I0, "b", I2>>, <<I2, "b", I2>>}

\* The dict of the moves E, with an entry set() for every key of Ks that has
\* no move.
DeltaOf(E, Ks) ==
  [k \in {<<e[1], e[2]>> : e \in E} \cup Ks |->
     {e[3] : e \in {d \in E : d[1] = k[1] /\ d[2] = k[2]}}]

NFAsOver(U, Sigma, Es, Kss, Ss, Fs) ==
  {NFA(U, Sigma, DeltaOf(E, Ks), S, F) :
     E \in Es, Ks \in Kss, S \in Ss, F \in Fs}

NFAFamily ==
  {N0, N1} \cup {N1_without(q) : q \in {I0, I1, I2}}
    \cup NFAsOver(U3, AB, SUBSET EdgePool, {{}, U3 \X {"", "a", "b"}},
                  {{I0}, {I0, I1}}, {{I2}, {I0}})
    \cup NFAsOver(U3, {}, SUBSET (U3 \X {""} \X U3), {{}, U3 \X {""}},
                  {{I0}}, {{I2}})

\* The input strings tried on an automaton: the strings over its alphabet Σ,
\* a symbol 0 of Σ being the character "0" of the string.
InputSymbols(self) == {sym[2] : sym \in self.Sigma}
Inputs(self) == Words(InputSymbols(self), MaxLen)

\* Every state an automaton mentions, and the orders a set of them can be
\* visited in.
States(self) ==
  self.Q \cup self.F \cup {k[1] : k \in DOMAIN self.delta}
    \cup (IF self.kind = "NFA"
           THEN self.S \cup UNION Range(self.delta)
           ELSE {self.q0} \cup Range(self.delta))
Orders(U) ==
  {s \in [1..Cardinality(U) -> U] : \A i, j \in DOMAIN s : s[i] = s[j] => i = j}

(***************************************************************************)
(* Calls.  calls[c] is the call caller c is in: the method, the argument   *)
(* as it was passed (input) and as it is now (arg), the locals of the      *)
(* method (w, q, P, C, stack), and how the call ended (exc, ret).  pushes  *)
(* and pops count, for every state, how often ε_closure put it on its      *)
(* worklist and took it off; automata names the object run_tests was      *)
(* given, test_cases are the cases it has still to run and out is what it  *)
(* printed.                                                                *)
(***************************************************************************)
Idle ==
  [op |-> "idle", pc |-> "idle", input |-> <<>>, arg |-> <<>>, w |-> <<>>,
   q |-> PyNone, P |-> {}, exc |-> None, ret |-> None, chained |-> FALSE,
   C |-> {}, stack |-> <<>>, pushes |-> <<>>, pops |-> <<>>,
   automata |-> None, label |-> None, test_cases |-> <<>>, out |-> <<>>]

Entered(op, x) == [Idle EXCEPT !.op = op, !.pc = "loop", !.input = x, !.arg = x]

\* The call of c ends: with the exception of result r, or returning its value.
Ended(call, r) == [call EXCEPT !.pc = "done", !.exc = r.exc, !.ret = r.val]

At(c, op, pc) == calls[c].op = op /\ calls[c].pc = pc

\* q = self.q0
DFA_run_call(c, w) ==
  /\ At(c, "idle", "idle")
  /\ dfa.kind = "DFA"
  /\ calls' = [calls EXCEPT ![c] = [Entered("DFA.run", w) EXCEPT !.w = w, !.q = dfa.q0]]
  /\ UNCHANGED <<dfa, nfa>>

\* while w != "": q = self.δ[(q,w[0])]; w = w[1:]
DFA_run_iter(c) ==
  /\ At(c, "DFA.run", "loop")
  /\ calls[c].w # <<>>
  /\ LET r == DFA_step(dfa, calls[c].q, Head(calls[c].w))
     IN calls' = [calls EXCEPT ![c] =
                    IF r.exc # None
                      THEN Ended(@, r)
                      ELSE [@ EXCEPT !.q = r.val, !.w = Tail(@)]]
  /\ UNCHANGED <<dfa, nfa>>

\* return q in self.F
DFA_run_return(c) ==
  /\ At(c, "DFA.run", "loop")
  /\ calls[c].w = <<>>
  /\ calls' = [calls EXCEPT ![c] = Ended(@, Return(calls[c].q \in dfa.F))]
  /\ UNCHANGED <<dfa, nfa>>

\* nfa = dfa.toNFA()
DFA_toNFA(c) ==
  /\ At(c, "idle", "idle")
  /\ dfa.kind = "DFA"
  /\ nfa.kind = None
  /\ LET r == toNFA(dfa)
     IN /\ calls' = [calls EXCEPT ![c] =
                       Ended([Idle EXCEPT !.op = "toNFA"], r)]
        /\ nfa' = IF r.exc = None THEN r.val ELSE nfa
  /\ UNCHANGED dfa

\* P = self.ε_closure(self.S)
NFA_run_call(c, w) ==
  /\ At(c, "idle", "idle")
  /\ nfa.kind = "NFA"
  /\ \E ord \in Orders(States(nfa)) :
       /\ calls' = [calls EXCEPT ![c] =
                     [Entered("NFA.run", w) EXCEPT
                        !.w = w, !.P = NFA_first(nfa, ord)]]
       /\ nfa' = [nfa EXCEPT !.S = eps_closure_arg(nfa, nfa.S, ord)]
  /\ UNCHANGED dfa

\* while w != "": new_P = ...; P = self.ε_closure(new_P); w = w[1:]
NFA_run_iter(c) ==
  /\ At(c, "NFA.run", "loop")
  /\ calls[c].w # <<>>
  /\ \E ord \in Orders(States(nfa)) :
       calls' = [calls EXCEPT ![c] =
                   [@ EXCEPT !.P = NFA_step(nfa, calls[c].P, Head(calls[c].w), ord),
                             !.w = Tail(@)]]
  /\ UNCHANGED <<dfa, nfa>>

\* return not P.isdisjoint(self.F)
NFA_run_return(c) ==
  /\ At(c, "NFA.run", "loop")
  /\ calls[c].w = <<>>
  /\ calls' = [calls EXCEPT ![c] = Ended(@, Return(NFA_result(nfa, calls[c].P)))]
  /\ UNCHANGED <<dfa, nfa>>

\* C = nfa.ε_closure(S), S a set the caller holds
eps_closure_call(c, S) ==
  /\ At(c, "idle", "idle")
  /\ nfa.kind = "NFA"
  /\ \E ord \in Orders(States(nfa)) :
       calls' = [calls EXCEPT ![c] =
                   Ended([Entered("eps_closure", S) EXCEPT
                            !.arg = eps_closure_arg(nfa, S, ord)],
                         Return(eps_closure(nfa, S, ord)))]
  /\ UNCHANGED <<dfa, nfa>>

\* nfa.ε_closure(C), C the set the call before returned
eps_closure_again(c) ==
  /\ At(c, "eps_closure", "done")
  /\ ~calls[c].chained
  /\ \E ord \in Orders(States(nfa)) :
       LET C == calls[c].ret
       IN calls' = [calls EXCEPT ![c] =
                      Ended([Entered("eps_closure", C) EXCEPT
                               !.arg = eps_closure_arg(nfa, C, ord),
                               !.chained = TRUE],
                            Return(eps_closure(nfa, C, ord)))]
  /\ UNCHANGED <<dfa, nfa>>

\* The caller has the result and goes on to its next call.
Finish(c) ==
  /\ calls[c].pc = "done"
  /\ calls' = [calls EXCEPT ![c] = Idle]
  /\ UNCHANGED <<dfa, nfa>>

(***************************************************************************)
(* A DFA, one caller: run, toNFA, and run of the NFA toNFA returned.       *)
(***************************************************************************)
InitDFA ==
  /\ dfa \in DFAFamily
  /\ nfa = NoObject
  /\ calls = [c \in {"t1"} |-> Idle]

NextDFA ==
  \/ \E c \in DOMAIN calls : \E w \in Inputs(dfa) : DFA_run_call(c, w)
  \/ \E c \in DOMAIN calls : DFA_run_iter(c)
  \/ \E c \in DOMAIN calls : DFA_run_return(c)
  \/ \E c \in DOMAIN calls : DFA_toNFA(c)
  \/ \E c \in DOMAIN calls : \E w \in Inputs(dfa) : NFA_run_call(c, w)
  \/ \E c \in DOMAIN calls : NFA_run_iter(c)
  \/ \E c \in DOMAIN calls : NFA_run_return(c)
  \/ \E c \in DOMAIN calls : Finish(c)

SpecDFA == InitDFA /\ [][NextDFA]_vars

\* How a call of run ended, as the caller sees it.
Outcome(call) ==
  IF call.exc # None THEN call.exc ELSE IF call.ret THEN "True" ELSE "False"

\* q0 is a state, the accepting states are states, and δ takes every state
\* and every input symbol to a state.
WellFormedDFA(A) ==
  /\ A.q0 \in A.Q
  /\ A.F \subseteq A.Q
  /\ \A q \in A.Q, x \in InputSymbols(A) :
       <<q, x>> \in DOMAIN A.delta /\ A.delta[<<q, x>>] \in A.Q

\* C1: for every well-formed DFA A and every input w up to the bounded
\* length, A.toNFA() returns an NFA and its run(w) returns what A.run(w)
\* returns.
C1_toNFA_accepts_the_same ==
  \A c \in DOMAIN calls :
    (At(c, "toNFA", "done") /\ WellFormedDFA(dfa)) =>
      /\ calls[c].exc = None
      /\ \A w \in Inputs(dfa) : \A ord \in Orders(States(nfa)) :
           NFA_run(nfa, w, ord) = DFA_run(dfa, w).val

\* C17: for every DFA A, A.toNFA() returns an NFA with the states, alphabet
\* and accepting states of A, with the start set {q0}, with δ taking every
\* key of A's δ to the singleton of A's target, and with no ε entry.
C17_toNFA_lifts_to_singletons ==
  \A c \in DOMAIN calls :
    At(c, "toNFA", "done") =>
      /\ calls[c].exc = None
      /\ calls[c].ret.kind = "NFA"
      /\ calls[c].ret.Q = dfa.Q
      /\ calls[c].ret.Sigma = dfa.Sigma
      /\ calls[c].ret.F = dfa.F
      /\ calls[c].ret.S = {dfa.q0}
      /\ DOMAIN calls[c].ret.delta = DOMAIN dfa.delta
      /\ \A k \in DOMAIN dfa.delta :
           calls[c].ret.delta[k] = {dfa.delta[k]} /\ k[2] # ""

\* The walk of A on w reaches a state and a next symbol that δ has no entry
\* for: s lists the states passed before it.
MissingPairReached(A, w) ==
  \E n \in 1..Len(w) : \E s \in [1..n -> States(A)] :
    /\ s[1] = A.q0
    /\ \A j \in 1..(n - 1) :
         <<s[j], w[j]>> \in DOMAIN A.delta /\ s[j + 1] = A.delta[<<s[j], w[j]>>]
    /\ <<s[n], w[n]>> \notin DOMAIN A.delta

\* C2: DFA.run ends in the error KeyError (the missing transition) exactly
\* when its walk reaches a (state, symbol) pair δ has no entry for, and
\* then it returns neither True nor False; otherwise it returns a boolean.
C2_missing_transition_is_an_error ==
  \A c \in DOMAIN calls :
    At(c, "DFA.run", "done") =>
      IF MissingPairReached(dfa, calls[c].input)
        THEN Outcome(calls[c]) = "KeyError"
        ELSE Outcome(calls[c]) \in {"True", "False"}

\* A run that read a symbol and then met a missing pair.
C2_witness ==
  \E c \in DOMAIN calls :
    /\ At(c, "DFA.run", "done")
    /\ calls[c].exc = "KeyError"
    /\ calls[c].w # calls[c].input
    /\ dfa.q0 \in dfa.Q

\* C9: an automaton that is run has its start state among its states (a
\* DFA) or its start states among its states (an NFA): the constructor let
\* no other automaton through.
C9_construction_rejects_bad_start ==
  \A c \in DOMAIN calls :
    /\ calls[c].op = "DFA.run" => dfa.q0 \in dfa.Q
    /\ calls[c].op = "NFA.run" => nfa.S \subseteq nfa.Q

(***************************************************************************)
(* An NFA, one caller: run and ε_closure.                                  *)
(***************************************************************************)
InitNFA ==
  /\ dfa = NoObject
  /\ nfa \in NFAFamily
  /\ calls = [c \in {"t1"} |-> Idle]

NextNFA ==
  \/ \E c \in DOMAIN calls : \E w \in Inputs(nfa) : NFA_run_call(c, w)
  \/ \E c \in DOMAIN calls : NFA_run_iter(c)
  \/ \E c \in DOMAIN calls : NFA_run_return(c)
  \/ \E c \in DOMAIN calls : \E S \in SUBSET States(nfa) : eps_closure_call(c, S)
  \/ \E c \in DOMAIN calls : eps_closure_again(c)
  \/ \E c \in DOMAIN calls : Finish(c)

SpecNFA == InitNFA /\ [][NextNFA]_vars

\* The moves of an NFA: (q, x, r) when r is in δ[(q,x)].
Moves(N) == UNION {{<<k[1], k[2], r>> : r \in N.delta[k]} : k \in DOMAIN N.delta}

\* T is closed under the ε-moves of N.
EpsClosed(N, T) == \A m \in Moves(N) : (m[2] = "" /\ m[1] \in T) => m[3] \in T

\* r is reached from s by zero or more ε-moves of N: p is the path.
EpsReachable(N, s, r) ==
  \E n \in 1..Cardinality(States(N) \cup {s}) : \E p \in [1..n -> States(N) \cup {s}] :
    /\ p[1] = s
    /\ p[n] = r
    /\ \A j \in 1..(n - 1) : <<p[j], "", p[j + 1]>> \in Moves(N)

\* The smallest superset of S closed under the ε-moves of N.
SmallestEpsClosed(N, S) ==
  {r \in States(N) \cup S :
     \A T \in SUBSET (States(N) \cup S) : (S \subseteq T /\ EpsClosed(N, T)) => r \in T}

\* The configurations (state, symbols read) of N on w reached from the
\* configurations X by moves: an ε-move reads nothing, a move on the next
\* symbol of w reads it.
RECURSIVE ConfigsReached(_, _, _)
ConfigsReached(N, w, X) ==
  LET next == {<<m[3], x[2] + (IF m[2] = "" THEN 0 ELSE 1)>> :
                 <<m, x>> \in {<<m, x>> \in Moves(N) \X X :
                    /\ m[1] = x[1]
                    /\ \/ m[2] = ""
                       \/ x[2] < Len(w) /\ m[2] = w[x[2] + 1]}}
  IN IF next \subseteq X THEN X ELSE ConfigsReached(N, w, X \cup next)

\* Some path of moves from a start state to an accepting state spells w.
PathAccepts(N, w) ==
  \E f \in N.F : <<f, Len(w)>> \in ConfigsReached(N, w, N.S \X {0})

\* C3: NFA.run(w) returns true exactly when an accepting state is reached
\* from a start state along a path of moves whose symbols other than ε
\* spell w.
C3_run_is_path_acceptance ==
  \A c \in DOMAIN calls :
    At(c, "NFA.run", "done") =>
      Outcome(calls[c]) = IF PathAccepts(nfa, calls[c].input) THEN "True" ELSE "False"

\* A run that accepts an input of two symbols or more after an ε-move.
C3_witness ==
  \E c \in DOMAIN calls :
    /\ At(c, "NFA.run", "done")
    /\ Outcome(calls[c]) = "True"
    /\ Len(calls[c].input) >= 2
    /\ \E m \in Moves(nfa) : m[2] = "" /\ m[1] \in nfa.S /\ m[3] \notin nfa.S
    /\ nfa.S \cap nfa.F = {}

\* C4: ε_closure(S) is the smallest superset of S closed under the ε-moves,
\* which is the set of the states reached from S by zero or more ε-moves.
C4_closure_is_least_closed_superset ==
  \A c \in DOMAIN calls :
    At(c, "eps_closure", "done") =>
      /\ calls[c].exc = None
      /\ calls[c].ret = SmallestEpsClosed(nfa, calls[c].input)
      /\ calls[c].ret =
           {r \in States(nfa) : \E s \in calls[c].input : EpsReachable(nfa, s, r)}

\* A closure that took two ε-moves in a row to a state outside S.
C4_witness ==
  \E c \in DOMAIN calls :
    /\ At(c, "eps_closure", "done")
    /\ \E r \in calls[c].ret \ calls[c].input :
         \A s \in calls[c].input : <<s, "", r>> \notin Moves(nfa)

\* C5: S is a subset of ε_closure(S), and ε_closure of a set ε_closure
\* returned is that set.
C5_closure_extensive_idempotent ==
  \A c \in DOMAIN calls :
    At(c, "eps_closure", "done") =>
      /\ calls[c].input \subseteq calls[c].ret
      /\ calls[c].chained => calls[c].ret = calls[c].input

\* ε_closure called on what ε_closure returned, which two ε-moves in a row
\* had reached.
C5_witness ==
  \E c \in DOMAIN calls :
    /\ At(c, "eps_closure", "done")
    /\ calls[c].chained
    /\ \E q \in calls[c].input, r \in calls[c].input, t \in calls[c].input :
         /\ q # r /\ r # t /\ q # t
         /\ <<q, "", r>> \in Moves(nfa) /\ <<r, "", t>> \in Moves(nfa)
         /\ <<q, "", t>> \notin Moves(nfa)

\* s is what is left of t after some of its first symbols are taken away.
IsSuffix(s, t) ==
  Len(s) <= Len(t) /\ s = SubSeq(t, Len(t) - Len(s) + 1, Len(t))

\* C20: in NFA.run the frontier P is closed under the ε-moves before the
\* first symbol and after every symbol, P is inside Q when the start states
\* and all targets of δ are in Q, w is always what is left of the input, one
\* iteration of the loop takes exactly the first symbol off w, and entering
\* the run (the closure of the starts) and leaving it take none.
C20_frontier_closed_one_symbol_a_step ==
  /\ [](\A c \in DOMAIN calls :
          calls[c].op = "NFA.run" =>
            /\ EpsClosed(nfa, calls[c].P)
            /\ (nfa.S \cup UNION Range(nfa.delta) \subseteq nfa.Q) =>
                 calls[c].P \subseteq nfa.Q
            /\ IsSuffix(calls[c].w, calls[c].input))
  /\ [][\A c \in DOMAIN calls :
          /\ (At(c, "idle", "idle") /\ calls'[c].op = "NFA.run") =>
               calls'[c].w = calls'[c].input
          /\ (At(c, "NFA.run", "loop") /\ calls'[c].pc = "loop") =>
               /\ calls[c].w # <<>>
               /\ calls'[c].w = Tail(calls[c].w)
          /\ (At(c, "NFA.run", "loop") /\ calls'[c].pc = "done") =>
               calls[c].w = <<>> /\ calls'[c].w = <<>>]_vars

\* A run between two symbols whose frontier holds a state that only an
\* ε-move after the last symbol read has brought in.
C20_witness ==
  \E c \in DOMAIN calls :
    /\ At(c, "NFA.run", "loop")
    /\ calls[c].w # <<>>
    /\ calls[c].w # calls[c].input
    /\ LET x == calls[c].input[Len(calls[c].input) - Len(calls[c].w)]
       IN \E m \in Moves(nfa) :
            /\ m[2] = "" /\ m[1] \in calls[c].P /\ m[3] \in calls[c].P
            /\ \A n \in Moves(nfa) : n[2] = x => n[3] # m[3]

\* C6: in NFA.run, a frontier that is empty stays empty over every later
\* symbol, no error is raised, and the run returns false.
C6_empty_frontier_stays_empty ==
  [][\A c \in DOMAIN calls :
       (At(c, "NFA.run", "loop") /\ calls[c].P = {}) =>
         /\ calls'[c].P = {}
         /\ calls'[c].exc = None
         /\ calls'[c].pc = "done" => Outcome(calls'[c]) = "False"]_vars

\* A frontier that became empty after a symbol, with symbols left to read.
C6_witness ==
  \E c \in DOMAIN calls :
    /\ At(c, "NFA.run", "loop")
    /\ calls[c].P = {}
    /\ nfa.S # {}
    /\ calls[c].w # <<>>
    /\ calls[c].w # calls[c].input

\* C7: on the empty input NFA.run returns true exactly when the ε-closure
\* of the start states meets the accepting states; N1 accepts the empty
\* string, and N1 short of one ε-move of its chain rejects it.
C7_empty_input_acceptance ==
  \A c \in DOMAIN calls :
    (At(c, "NFA.run", "done") /\ calls[c].input = <<>>) =>
      /\ Outcome(calls[c]) =
           IF SmallestEpsClosed(nfa, nfa.S) \cap nfa.F # {} THEN "True" ELSE "False"
      /\ nfa = N1 => Outcome(calls[c]) = "True"
      /\ nfa \in {N1_without(q) : q \in {I0, I1, I2}} => Outcome(calls[c]) = "False"

\* N1 has accepted the empty string.
C7_witness ==
  \E c \in DOMAIN calls :
    /\ At(c, "NFA.run", "done")
    /\ calls[c].input = <<>>
    /\ nfa = N1
    /\ Outcome(calls[c]) = "True"

\* The keys δ can have, and N with the key k taken out if it maps to set(),
\* put in with the value set() if it is missing.
AllKeys(N) == States(N) \X ({""} \cup InputSymbols(N))
Toggled(N, k) ==
  IF k \notin DOMAIN N.delta
    THEN [N EXCEPT !.delta = [j \in DOMAIN N.delta \cup {k} |->
                                 IF j = k THEN {} ELSE N.delta[j]]]
    ELSE IF N.delta[k] = {}
      THEN [N EXCEPT !.delta = [j \in DOMAIN N.delta \ {k} |-> N.delta[j]]]
      ELSE N

AnOrder(N) == CHOOSE ord \in Orders(States(N)) : TRUE

\* C8: a pair mapped to set() and a pair missing from δ are the same to
\* ε_closure and to run: with any one pair changed from the one to the
\* other, the call returns what it returned.
C8_empty_entry_is_absent_entry ==
  \A c \in DOMAIN calls :
    /\ At(c, "NFA.run", "done") =>
         \A k \in AllKeys(nfa) :
           calls[c].ret = NFA_run(Toggled(nfa, k), calls[c].input, AnOrder(nfa))
    /\ At(c, "eps_closure", "done") =>
         \A k \in AllKeys(nfa) :
           calls[c].ret = eps_closure(Toggled(nfa, k), calls[c].input, AnOrder(nfa))

\* A run that accepted and on its way read an entry set() of δ.
C8_witness ==
  \E c \in DOMAIN calls :
    /\ At(c, "NFA.run", "done")
    /\ Outcome(calls[c]) = "True"
    /\ calls[c].input # <<>>
    /\ \E q \in nfa.S :
         /\ <<q, "">> \in DOMAIN nfa.delta /\ nfa.delta[<<q, "">>] = {}
         /\ <<q, calls[c].input[1]>> \in DOMAIN nfa.delta
         /\ nfa.delta[<<q, calls[c].input[1]>>] = {}

(***************************************************************************)
(* D0 and the NFA of all the moves of EdgePool, two callers whose calls    *)
(* interleave.                                                             *)
(***************************************************************************)
InitInterleaved ==
  /\ dfa = D0
  /\ nfa = NFA(U3, AB, DeltaOf(EdgePool, {}), {I0}, {I2})
  /\ calls = [c \in {"t1", "t2"} |-> Idle]

NextInterleaved ==
  \/ \E c \in DOMAIN calls : \E w \in Inputs(dfa) : DFA_run_call(c, w)
  \/ \E c \in DOMAIN calls : DFA_run_iter(c)
  \/ \E c \in DOMAIN calls : DFA_run_return(c)
  \/ \E c \in DOMAIN calls : \E w \in Inputs(nfa) : NFA_run_call(c, w)
  \/ \E c \in DOMAIN calls : NFA_run_iter(c)
  \/ \E c \in DOMAIN calls : NFA_run_return(c)
  \/ \E c \in DOMAIN calls : \E S \in SUBSET States(nfa) : eps_closure_call(c, S)
  \/ \E c \in DOMAIN calls : Finish(c)

SpecInterleaved == InitInterleaved /\ [][NextInterleaved]_vars

\* What the call of c returns when nothing runs beside it.
AloneOutcome(call) ==
  IF call.op = "DFA.run"
    THEN Outcome(Ended(call, DFA_run(dfa, call.input)))
    ELSE Outcome(Ended(call, Return(NFA_run(nfa, call.input, AnOrder(nfa)))))

\* C10: no step of DFA.run, NFA.run or ε_closure changes the automaton or
\* the set passed to ε_closure, and every call, whatever runs beside it,
\* returns what it returns alone.
C10_calls_change_nothing ==
  /\ [][dfa' = dfa /\ nfa' = nfa]_vars
  /\ [](\A c \in DOMAIN calls :
          /\ calls[c].op = "eps_closure" =>
               /\ calls[c].arg = calls[c].input
               /\ calls[c].ret = eps_closure(nfa, calls[c].input, AnOrder(nfa))
          /\ (calls[c].op \in {"DFA.run", "NFA.run"} /\ calls[c].pc = "done") =>
               Outcome(calls[c]) = AloneOutcome(calls[c]))

\* Two runs, each between two symbols of its input.
C10_witness ==
  /\ At("t1", "NFA.run", "loop")
  /\ calls["t1"].w # <<>> /\ calls["t1"].w # calls["t1"].input
  /\ nfa.S # calls["t1"].P
  /\ At("t2", "DFA.run", "loop")
  /\ calls["t2"].w # <<>> /\ calls["t2"].w # calls["t2"].input

(***************************************************************************)
(* ε_closure, one iteration of its while loop at a time.  The worklist is  *)
(* seeded with S in any order, and the for loop visits the ε-moves of the  *)
(* popped state in any order.                                              *)
(***************************************************************************)
\* eps_fresh when the popped state leaves C as it leaves the worklist.
eps_fresh_forgets_popped(self, C, q) ==
  dict_get(self.delta, <<q, "">>, {}) \ (C \ {q})

\* eps_fresh without "if new_q not in C".
eps_fresh_unchecked(self, C, q) == dict_get(self.delta, <<q, "">>, {})

\* The new_q of the for loop that pass "if new_q not in C".
eps_fresh(self, C, q) == dict_get(self.delta, <<q, "">>, {}) \ C

\* A count of pushes or pops, one more; counts of two and more are one.
Once(n) == IF n < 2 THEN n + 1 ELSE n

\* C=set(S); stack=list(S)
eps_enter(c, S) ==
  /\ At(c, "idle", "idle")
  /\ nfa.kind = "NFA"
  /\ \E st \in Orders(S) :
       calls' = [calls EXCEPT ![c] =
                   [Entered("eps_closure", S) EXCEPT
                      !.C = S, !.stack = st,
                      !.pushes = [q \in States(nfa) |-> IF q \in S THEN 1 ELSE 0],
                      !.pops = [q \in States(nfa) |-> 0]]]
  /\ UNCHANGED <<dfa, nfa>>

\* q=stack.pop(); for new_q in ...: if new_q not in C: C.add; stack.append
eps_pop(c) ==
  /\ At(c, "eps_closure", "loop")
  /\ calls[c].stack # <<>>
  /\ LET stack == calls[c].stack
         q == stack[Len(stack)]
         fresh == eps_fresh(nfa, calls[c].C, q)
     IN \E f \in Orders(fresh) :
          calls' = [calls EXCEPT ![c] =
                      [@ EXCEPT
                         !.C = @ \cup fresh,
                         !.stack = SubSeq(stack, 1, Len(stack) - 1) \o f,
                         !.pops = [@ EXCEPT ![q] = Once(@)],
                         !.pushes = [r \in DOMAIN @ |->
                                       IF r \in fresh THEN Once(@[r]) ELSE @[r]]]]
  /\ UNCHANGED <<dfa, nfa>>

\* return C
eps_return(c) ==
  /\ At(c, "eps_closure", "loop")
  /\ calls[c].stack = <<>>
  /\ calls' = [calls EXCEPT ![c] = Ended(@, Return(calls[c].C))]
  /\ UNCHANGED <<dfa, nfa>>

\* A DFA, and an NFA whose ε-moves make a cycle and a self-loop, with two
\* callers; every iteration of a set takes an order of its own.
InitOrders ==
  /\ dfa = D1
  /\ nfa = NFA(U3, AB, DeltaOf(EdgePool \cup {<<I2, "", I0>>, <<I1, "", I1>>}, {}),
               {I0}, {I2})
  /\ calls = [c \in {"t1", "t2"} |-> Idle]

NextOrders ==
  \/ \E c \in DOMAIN calls : \E w \in Inputs(dfa) : DFA_run_call(c, w)
  \/ \E c \in DOMAIN calls : DFA_run_iter(c)
  \/ \E c \in DOMAIN calls : DFA_run_return(c)
  \/ \E c \in DOMAIN calls : \E w \in Inputs(nfa) : NFA_run_call(c, w)
  \/ \E c \in DOMAIN calls : NFA_run_iter(c)
  \/ \E c \in DOMAIN calls : NFA_run_return(c)
  \/ \E c \in DOMAIN calls : \E S \in SUBSET States(nfa) : eps_enter(c, S)
  \/ \E c \in DOMAIN calls : eps_pop(c)
  \/ \E c \in DOMAIN calls : eps_return(c)
  \/ \E c \in DOMAIN calls : Finish(c)

SpecOrders == InitOrders /\ [][NextOrders]_vars

\* Two calls are at the same place of the same method on the same input.
SamePlace(a, b) ==
  /\ a.op = b.op /\ a.op # "idle"
  /\ a.input = b.input
  /\ a.pc = b.pc
  /\ a.w = b.w

\* C11: two calls of DFA.run or of NFA.run on the same input hold the same
\* state or frontier after the same number of symbols and return the same
\* result, and two calls of ε_closure on the same set return the same set,
\* whatever order each of them iterated its sets in and popped its worklist.
C11_run_is_deterministic ==
  \A a, b \in DOMAIN calls :
    SamePlace(calls[a], calls[b]) =>
      /\ calls[a].op = "DFA.run" => calls[a].q = calls[b].q
      /\ calls[a].op = "NFA.run" => calls[a].P = calls[b].P
      /\ (calls[a].op \in {"DFA.run", "NFA.run"} /\ calls[a].pc = "done") =>
           Outcome(calls[a]) = Outcome(calls[b])
      /\ (calls[a].op = "eps_closure" /\ calls[a].pc = "done") =>
           calls[a].ret = calls[b].ret

\* Two runs of the NFA whose ε-moves make a cycle have read the same two or
\* more symbols and have accepted.
C11_witness ==
  /\ SamePlace(calls["t1"], calls["t2"])
  /\ At("t1", "NFA.run", "done")
  /\ Len(calls["t1"].input) >= Len(<<"a", "b">>)
  /\ calls["t1"].ret = TRUE
  /\ <<I2, "", I0>> \in Moves(nfa)

\* Every NFA over three states that has ε-moves only; a call that is running
\* goes on running.
InitClosure ==
  /\ dfa = NoObject
  /\ nfa \in NFAsOver(U3, {}, SUBSET (U3 \X {""} \X U3), {{}}, {{I0}}, {{I2}})
  /\ calls = [c \in {"t1"} |-> Idle]

NextClosure ==
  \/ \E c \in DOMAIN calls : \E S \in SUBSET States(nfa) : eps_enter(c, S)
  \/ \E c \in DOMAIN calls : eps_pop(c)
  \/ \E c \in DOMAIN calls : eps_return(c)
  \/ \E c \in DOMAIN calls : Finish(c)

SpecClosure ==
  /\ InitClosure
  /\ [][NextClosure]_vars
  /\ WF_vars(eps_pop("t1"))
  /\ WF_vars(eps_return("t1"))

\* C16: while ε_closure runs, every state has been pushed onto the worklist at
\* most once and popped at most once, every state on the worklist is in C, and
\* a step pushes only states that were not in C before it.
C16_each_state_pushed_and_popped_once ==
  /\ [](\A c \in DOMAIN calls :
          calls[c].op = "eps_closure" /\ calls[c].pushes # <<>> =>
            /\ \A q \in States(nfa) : calls[c].pushes[q] <= 1 /\ calls[c].pops[q] <= 1
            /\ SeqRange(calls[c].stack) \subseteq calls[c].C)
  /\ [][\A c \in DOMAIN calls :
          At(c, "eps_closure", "loop") /\ calls'[c].op = "eps_closure" =>
            \A q \in States(nfa) :
              calls'[c].pushes[q] # calls[c].pushes[q] => q \notin calls[c].C]_vars

\* A closure of a start set inside an ε-cycle with a self-loop has returned:
\* every state was popped, and the pops met states already in C again.
C16_witness ==
  \E c \in DOMAIN calls :
    /\ At(c, "eps_closure", "done")
    /\ calls[c].pushes # <<>>
    /\ calls[c].input = {I0}
    /\ {<<I0, "", I0>>, <<I0, "", I1>>, <<I1, "", I2>>, <<I2, "", I0>>}
         \subseteq Moves(nfa)
    /\ \A q \in States(nfa) : calls[c].pops[q] = 1

\* C15: ε_closure terminates, whatever the ε-moves (cycles and self-loops
\* included) and the start set: a call that has entered its loop reaches an
\* empty worklist and returns C.
C15_closure_terminates ==
  At("t1", "eps_closure", "loop") ~>
    (At("t1", "eps_closure", "done") /\ calls["t1"].stack = <<>>
       /\ calls["t1"].ret = calls["t1"].C)

\* ε_closure has returned for an NFA whose ε-moves hold a self-loop and a
\* cycle through all three states, from a start set of two states.
C15_witness ==
  \E c \in DOMAIN calls :
    /\ At(c, "eps_closure", "done")
    /\ calls[c].pushes # <<>>
    /\ calls[c].input = {I0, I1}
    /\ calls[c].ret = U3
    /\ {<<I1, "", I1>>, <<I0, "", I1>>, <<I1, "", I2>>, <<I2, "", I0>>}
         \subseteq Moves(nfa)

(***************************************************************************)
(* The fixtures, run on their test strings and on every string up to the   *)
(* bound.                                                                  *)
(***************************************************************************)
InitFixtures ==
  /\ dfa \in {D0, D1}
  /\ nfa \in {N0, N1}
  /\ calls = [c \in {"t1"} |-> Idle]

NextFixtures ==
  \/ \E c \in DOMAIN calls :
       \E w \in Inputs(dfa) \cup TestStrings(IF dfa = D0 THEN D0_tests ELSE D1_tests) :
         DFA_run_call(c, w)
  \/ \E c \in DOMAIN calls : DFA_run_iter(c)
  \/ \E c \in DOMAIN calls : DFA_run_return(c)
  \/ \E c \in DOMAIN calls :
       \E w \in Inputs(nfa) \cup TestStrings(IF nfa = N0 THEN N0_tests ELSE N1_tests) :
         NFA_run_call(c, w)
  \/ \E c \in DOMAIN calls : NFA_run_iter(c)
  \/ \E c \in DOMAIN calls : NFA_run_return(c)
  \/ \E c \in DOMAIN calls : Finish(c)

SpecFixtures == InitFixtures /\ [][NextFixtures]_vars

\* No "a" stands after a "b" in w.
AsBeforeBs(w) == \A i, j \in 1..Len(w) : i < j => ~(w[i] = "b" /\ w[j] = "a")

\* C12: D0.run(w) is True exactly for the strings w over a, b in which every
\* a comes before every b.
C12_D0_accepts_as_before_bs ==
  \A c \in DOMAIN calls :
    (At(c, "DFA.run", "done") /\ dfa = D0) =>
      Outcome(calls[c]) = (IF AsBeforeBs(calls[c].input) THEN "True" ELSE "False")

\* D0 has accepted "aabb".
C12_witness ==
  /\ dfa = D0
  /\ At("t1", "DFA.run", "done")
  /\ calls["t1"].input = <<"a", "a", "b", "b">>
  /\ Outcome(calls["t1"]) = "True"

\* The last two symbols of w are both "1".
EndsIn11(w) == Len(w) > 1 /\ w[Len(w)] = "1" /\ w[Len(w) - 1] = "1"

\* C13: D1.run(w) meets no missing transition and is True exactly for the
\* strings w over "0", "1" that end in "11".
C13_D1_accepts_ending_in_11 ==
  \A c \in DOMAIN calls :
    (At(c, "DFA.run", "done") /\ dfa = D1) =>
      Outcome(calls[c]) = (IF EndsIn11(calls[c].input) THEN "True" ELSE "False")

\* D1 has accepted "010111", and has come back from state 2 on a "0".
C13_witness ==
  /\ dfa = D1
  /\ At("t1", "DFA.run", "done")
  /\ calls["t1"].input = <<"0", "1", "0", "1", "1", "1">>
  /\ Outcome(calls["t1"]) = "True"

\* The second-to-last symbol of w is "1".
PenultimateIs1(w) == Len(w) > 1 /\ w[Len(w) - 1] = "1"

\* C14: N0.run(w) is True exactly for the strings w over "0", "1" of two or
\* more symbols whose second-to-last symbol is "1".
C14_N0_accepts_penultimate_1 ==
  \A c \in DOMAIN calls :
    (At(c, "NFA.run", "done") /\ nfa = N0) =>
      Outcome(calls[c]) = (IF PenultimateIs1(calls[c].input) THEN "True" ELSE "False")

\* N0 has rejected "100".
C14_witness ==
  /\ nfa = N0
  /\ At("t1", "NFA.run", "done")
  /\ calls["t1"].input = <<"1", "0", "0">>
  /\ Outcome(calls["t1"]) = "False"

(***************************************************************************)
(* run_tests: the header, one test case per iteration of its loop, the     *)
(* closing line.                                                           *)
(***************************************************************************)
\* The object a name of the script stands for.
Object(name) == IF name = "dfa" THEN dfa ELSE nfa

\* automata.run(test), for either class.
run(self, test, ord) ==
  IF self.kind = "DFA" THEN DFA_run(self, test) ELSE Return(NFA_run(self, test, ord))

\* The line run_tests prints for a test case.
report(test, expected, result) ==
  <<IF result = expected THEN "PASSED" ELSE "FAILED", test, result>>

\* result = automata.run(test), then the line printed for it: an exception
\* of run leaves run_tests before anything is printed.
report_of_run(test, expected, r) ==
  IF r.exc # None THEN Raise(r.exc) ELSE Return(report(test, expected, r.val))

\* print(sep); print(f"Testing {label}"); print(sep); print(automata); print()
run_tests_call(c, automata, label, test_cases) ==
  /\ At(c, "idle", "idle")
  /\ Object(automata).kind # None
  /\ calls' = [calls EXCEPT ![c] =
                 [Entered("run_tests", test_cases) EXCEPT
                    !.automata = automata, !.label = label,
                    !.test_cases = test_cases,
                    !.out = << <<"sep">>, <<"Testing", label>>, <<"sep">>,
                               <<"repr", Object(automata).kind>>, <<"">> >>]]
  /\ UNCHANGED <<dfa, nfa>>

\* for test, expected in test_cases: result = automata.run(test); print(...)
run_tests_iter(c) ==
  /\ At(c, "run_tests", "loop")
  /\ calls[c].test_cases # <<>>
  /\ LET self == Object(calls[c].automata)
         test == Head(calls[c].test_cases)[1]
         expected == Head(calls[c].test_cases)[2]
     IN \E ord \in (IF self.kind = "NFA" THEN Orders(States(self)) ELSE {<<>>}) :
          LET line == report_of_run(test, expected, run(self, test, ord))
          IN calls' = [calls EXCEPT ![c] =
                         IF line.exc # None
                           THEN Ended(@, line)
                           ELSE [@ EXCEPT !.test_cases = Tail(@),
                                          !.out = Append(@, line.val)]]
  /\ UNCHANGED <<dfa, nfa>>

\* print(sep)
run_tests_return(c) ==
  /\ At(c, "run_tests", "loop")
  /\ calls[c].test_cases = <<>>
  /\ calls' = [calls EXCEPT ![c] =
                 Ended([@ EXCEPT !.out = Append(@, <<"sep">>)], Return(PyNone))]
  /\ UNCHANGED <<dfa, nfa>>

\* The lists of at most two test cases over the input strings of an automaton.
TestLists(self) ==
  LET cases == Inputs(self) \X BOOLEAN
  IN {<<>>} \cup {<<t>> : t \in cases} \cup {<<t, u>> : t \in cases, u \in cases}

\* The δ of a DFA over the states 0, 1 that changes state on b, cut down to
\* the keys K.
FlipOnB(K) ==
  [k \in K |-> IF k[2] = "b" THEN (IF k[1] = I0 THEN I1 ELSE I0) ELSE k[1]]

\* The fixtures with their test cases, and DFAs with and without missing
\* transitions with every short list of test cases.
InitTests ==
  /\ dfa \in {D0, D1}
            \cup {DFA({I0, I1}, AB, FlipOnB(K), I0, {I1}) :
                    K \in SUBSET ({I0, I1} \X {"a", "b"})}
  /\ nfa \in {N0, N1}
  /\ calls = [c \in {"t1"} |-> Idle]

NextTests ==
  \/ \E c \in DOMAIN calls : dfa = D0 /\ run_tests_call(c, "dfa", "DFA0", D0_tests)
  \/ \E c \in DOMAIN calls : dfa = D1 /\ run_tests_call(c, "dfa", "DFA1", D1_tests)
  \/ \E c \in DOMAIN calls : nfa = N0 /\ run_tests_call(c, "nfa", "NFA0", N0_tests)
  \/ \E c \in DOMAIN calls : nfa = N1 /\ run_tests_call(c, "nfa", "NFA1", N1_tests)
  \/ \E c \in DOMAIN calls :
       /\ At(c, "idle", "idle") /\ dfa \notin {D0, D1}
       /\ \E test_cases \in TestLists(dfa) : run_tests_call(c, "dfa", "DFA", test_cases)
  \/ \E c \in DOMAIN calls : run_tests_iter(c)
  \/ \E c \in DOMAIN calls : run_tests_return(c)
  \/ \E c \in DOMAIN calls : Finish(c)

SpecTests == InitTests /\ [][NextTests]_vars

\* The lines of out that report a test case.
Reports(out) == SelectSeq(out, LAMBDA line : line[1] \in {"PASSED", "FAILED"})

\* C18: a run that fails on a test case does not end run_tests: run_tests
\* ends without an exception, having printed PASSED or FAILED for every test
\* case it was given.
C18_failed_run_is_reported ==
  \A c \in DOMAIN calls :
    At(c, "run_tests", "done") =>
      /\ calls[c].exc = None
      /\ Len(Reports(calls[c].out)) = Len(calls[c].input)

(***************************************************************************)
(* visualize: the nodes and the edges it hands to the Digraph.  A node is  *)
(* (name, shape), an edge is (tail name, head name, label), and edges is   *)
(* the bag of the edges added.                                             *)
(***************************************************************************)
\* f"q{state}": the text of the state, whatever its type.
nameof(state) == <<"q">> \o Tail(state)

\* The name '' of the node the start arrow leaves from.
Anchor == <<>>

\* dot.edge('', ..., arrowhead='normal') gives no label.
NoLabel == None

\* q == automaton.S: a state that is an int or a str equals no set.
state_eq_set(q, S) == FALSE

\* dot.edge(nameof(q), nameof(next_q), label=...) for every move
\* (q, label, next_q) of a set of moves.
edges_of(moves) ==
  LET drawn(m) == <<nameof(m[1]), nameof(m[3]), m[2]>>
  IN [e \in {drawn(m) : m \in moves} |->
        Cardinality({m \in moves : drawn(m) = e})]

\* dot.node('', shape='none', ...); dot.edge('', nameof(q), arrowhead='normal')
start_arrow(q) == [e \in {<<Anchor, nameof(q), NoLabel>>} |-> 1]

\* The DFA branch.
visualize_DFA(automaton) ==
  [nodes |-> {<<nameof(q), IF q \in automaton.F THEN "doublecircle" ELSE "circle">> :
                q \in automaton.Q}
               \cup {<<Anchor, "none">>},
   edges |-> edges_of({<<k[1], k[2], automaton.delta[k]>> :
                         k \in DOMAIN automaton.delta})
               (+) start_arrow(automaton.q0)]

\* The NFA branch; first is next(iter(automaton.S)).
visualize_NFA(automaton, first) ==
  [nodes |-> {<<nameof(q),
                IF state_eq_set(q, automaton.S) THEN "circle"
                ELSE IF q \in automaton.F THEN "doublecircle" ELSE "circle">> :
                q \in automaton.Q}
               \cup {<<Anchor, "none">>},
   edges |-> edges_of(UNION {{<<k[1], k[2], p>> : p \in automaton.delta[k]} :
                               k \in {j \in DOMAIN automaton.delta : j[2] # ""}})
               (+) edges_of(UNION {{<<q, "ε", t>> :
                                      t \in dict_get(automaton.delta, <<q, "">>, {})} :
                                     q \in automaton.Q})
               (+) start_arrow(first)]

\* visualize(automaton)
visualize(automaton, first) ==
  IF automaton.kind = "DFA" THEN Return(visualize_DFA(automaton))
  ELSE IF automaton.kind = "NFA"
    THEN IF automaton.S = {}
           THEN Raise("StopIteration")
           ELSE Return(visualize_NFA(automaton, first))
  ELSE Raise("ValueError")

\* dot = visualize(automaton)
visualize_call(c, automata) ==
  /\ At(c, "idle", "idle")
  /\ LET automaton == Object(automata)
     IN \E first \in (IF automaton.kind = "NFA" /\ automaton.S # {}
                        THEN automaton.S ELSE {PyNone}) :
          calls' = [calls EXCEPT ![c] =
                      Ended([Idle EXCEPT !.op = "visualize", !.automata = automata],
                            visualize(automaton, first))]
  /\ UNCHANGED <<dfa, nfa>>

\* The fixtures, and NFAs over three states with no, one, two and three
\* start states.
InitVisualize ==
  /\ dfa \in {D0, D1}
  /\ nfa \in {N0, N1}
       \cup NFAsOver(U3, AB, SUBSET EdgePool, {{}},
                     {{}, {I0}, {I0, I1}, U3}, {{I2}, {I0}})
  /\ calls = [c \in {"t1"} |-> Idle]

NextVisualize ==
  \/ \E c \in DOMAIN calls : visualize_call(c, "dfa")
  \/ \E c \in DOMAIN calls : visualize_call(c, "nfa")
  \/ \E c \in DOMAIN calls : Finish(c)

SpecVisualize == InitVisualize /\ [][NextVisualize]_vars

\* The heads of the edges of dot that leave the anchor node.
StartArrows(dot) == {e[2] : e \in {d \in DOMAIN dot.edges : d[1] = Anchor}}

\* C19: visualize draws an edge from the anchor node to q0 of a DFA and to
\* every state of the start set S of an NFA, S being any non-empty set;
\* every accepting state is a doublecircle node, and every ε-move is an edge
\* labelled ε that is added exactly once.
C19_start_arrows_to_every_start ==
  \A c \in DOMAIN calls :
    LET automaton == Object(calls[c].automata)
        dot == calls[c].ret
    IN (At(c, "visualize", "done") /\ (automaton.kind = "NFA" => automaton.S # {})) =>
         /\ calls[c].exc = None
         /\ StartArrows(dot) = (IF automaton.kind = "DFA"
                                  THEN {nameof(automaton.q0)}
                                  ELSE {nameof(q) : q \in automaton.S})
         /\ \A q \in automaton.F \cap automaton.Q :
              <<nameof(q), "doublecircle">> \in dot.nodes
         /\ automaton.kind = "NFA" =>
              \A m \in {n \in Moves(automaton) : n[2] = ""} :
                /\ <<nameof(m[1]), nameof(m[3]), "ε">> \in DOMAIN dot.edges
                /\ dot.edges[<<nameof(m[1]), nameof(m[3]), "ε">>] = 1

====
